---- MODULE Spec2Model ----
(***************************************************************************)
(* Snapshot capture, change detection and the history queries of the ML    *)
(* dashboard (server.js, /api/history/*, and the schema of database.js).   *)
(*                                                                         *)
(* A price is the double the JSON number parses to, written as the decimal *)
(* in thousandths of a currency unit plus the representation error of the  *)
(* double (see Dbl); a percentage is an integer in hundredths of a percent *)
(* (10.00 is 1000).  SQL and JS scalar values are tagged tuples so that    *)
(* NULL, numbers and text can sit in the same column.                      *)
(***************************************************************************)
EXTENDS Integers, Sequences, FiniteSets, Bags, TLC

\* ---------------------------------------------------------------- bounds
MaxReqs == 2   \* capture requests against a marketplace with many answers
MaxSeq == 3    \* capture requests against a marketplace with few answers
MaxRows == 2   \* listings captured over all requests
MaxDay == 1    \* days the clock can advance
MaxReads == 1  \* read requests
MaxCalls == 3  \* calls of mlFetch

Reqs == 1..(IF MaxSeq > MaxReqs THEN MaxSeq ELSE MaxReqs)

\* ------------------------------------------------- inputs of the environment
\* what the marketplace can answer with in one specification: the item ids, the
\* titles, prices and sold counts a listing can have, whether the multiget can
\* answer an id with an error entry, whether a search can list an id twice, how
\* many capture requests arrive and whether one can arrive while another is in
\* flight
\* The double nearest to the decimal m / 1000: its value is m / 1000 + e * 10^-18
\* (e rounded to an integer; 100.01 parses to 100.01 + 5116 * 10^-18, and 100
\* and 110 are exact).
Dbl(m, e) == [m |-> m, e |-> e]

World ==
    [items |-> {"A", "B"}, titles |-> {"Old Name", "New Name"},
     prices |-> {Dbl(100000, 0), Dbl(110000, 0)}, solds |-> {2}, faulty |-> TRUE, dups |-> FALSE,
     reqs |-> MaxReqs, overlap |-> FALSE]
PriceWorld ==
    [items |-> {"A"}, titles |-> {"Widget"},
     prices |-> {Dbl(100000, 0), Dbl(100001, 4775), Dbl(100005, -4547),
                 Dbl(100010, 5116), Dbl(100011, -4320), Dbl(110000, 0)},
     solds |-> {2, 3},
     faulty |-> FALSE, dups |-> FALSE, reqs |-> MaxReqs, overlap |-> FALSE]
\* a marketplace whose search can list an id twice
DupWorld ==
    [items |-> {"A", "B"}, titles |-> {"Old Name", "New Name"},
     prices |-> {Dbl(100000, 0)}, solds |-> {2}, faulty |-> FALSE, dups |-> TRUE,
     reqs |-> MaxReqs, overlap |-> FALSE]

\* a marketplace with one item, for the read requests
ReadWorld ==
    [items |-> {"A"}, titles |-> {"Widget"},
     prices |-> {Dbl(100000, 0), Dbl(110000, 0)}, solds |-> {2}, faulty |-> FALSE,
     dups |-> FALSE, reqs |-> MaxReqs, overlap |-> FALSE]
\* ?days= of GET /api/history/changes; 7 is the default
QueryDays == {0, 7}

\* a marketplace whose item can have the price 0
ZeroWorld ==
    [items |-> {"A"}, titles |-> {"Widget"},
     prices |-> {Dbl(0, 0), Dbl(100000, 0)}, solds |-> {2, 3}, faulty |-> FALSE,
     dups |-> FALSE, reqs |-> MaxReqs, overlap |-> FALSE]

\* a marketplace with one item, for longer sequences of capture cycles
SeqWorld ==
    [items |-> {"A"}, titles |-> {"Widget"},
     prices |-> {Dbl(100000, 0), Dbl(110000, 0)}, solds |-> {2}, faulty |-> FALSE,
     dups |-> FALSE, reqs |-> MaxSeq, overlap |-> FALSE]

\* a marketplace with one item, with capture requests that arrive while others
\* are in flight
OverlapWorld ==
    [items |-> {"A"}, titles |-> {"Widget"},
     prices |-> {Dbl(100000, 0), Dbl(110000, 0)}, solds |-> {2}, faulty |-> FALSE,
     dups |-> FALSE, reqs |-> MaxReqs, overlap |-> TRUE]

TotalsWorld ==
    [items |-> {"A", "B", "C"}, titles |-> {"Widget"},
     prices |-> {Dbl(10000, 0)}, solds |-> {2, 3, 5}, faulty |-> FALSE, dups |-> FALSE,
     reqs |-> MaxReqs, overlap |-> FALSE]

\* ------------------------------------------------------------ SQL values
NULL == <<"null">>
SqlText(s) == <<"text", s>>
SqlReal(n) == <<"real", n>>
SqlInt(n) == <<"int", n>>
SqlDate(t) == <<"datetime", t>>

\* obj.f bound to a statement parameter: a missing property (undefined) binds NULL
BindText(obj, f) == IF f \in DOMAIN obj THEN SqlText(obj[f]) ELSE NULL
BindReal(obj, f) == IF f \in DOMAIN obj THEN SqlReal(obj[f]) ELSE NULL
BindInt(obj, f) == IF f \in DOMAIN obj THEN SqlInt(obj[f]) ELSE NULL

\* a REAL stored in a TEXT column is converted to its text, which has 15
\* significant digits: the decimal in thousandths
NumToText(v) == IF v = NULL THEN NULL ELSE SqlText(ToString(v[2].m))

\* ------------------------------------------------ responses of the ML API
\* what mlFetch can give back: it throws, or it returns the parsed JSON body,
\* which for a non-2xx answer is the API's error object (mlFetch never looks
\* at the HTTP status beyond 401)
Throw == [threw |-> TRUE]
ErrorResp == [error |-> "forbidden"]

\* the sequences of at most n elements of S; without repetition unless dups
RECURSIVE SeqsUpTo(_, _, _)
SeqsUpTo(S, n, dups) ==
    IF n = 0 THEN {<< >>}
    ELSE LET shorter == SeqsUpTo(S, n - 1, dups)
         IN  shorter \cup UNION
             {{Append(q, x) : x \in {y \in S : dups \/ \A k \in 1..Len(q) : q[k] # y}} :
                 q \in {t \in shorter : Len(t) = n - 1}}

\* GET /users/<id>/items/search
ItemsResps(W, n) ==
    {[results |-> ids] : ids \in SeqsUpTo(W.items, n, W.dups)} \cup {ErrorResp}

\* one element of the multiget answer GET /items?ids=...
ListingBodies(W, id) ==
    [id : {id}, title : W.titles, price : W.prices, sold_quantity : W.solds]
ErrorBody == [error |-> "not_found"]
DetailEntries(W, id) ==
    {[code |-> 200, body |-> b] : b \in ListingBodies(W, id)}
        \cup (IF W.faulty THEN {[code |-> 404, body |-> ErrorBody], [code |-> 500]} ELSE {})
DetailsResps(W, ids) ==
    {d \in [1..Len(ids) -> UNION {DetailEntries(W, i) : i \in W.items}] :
        \A k \in 1..Len(ids) : d[k] \in DetailEntries(W, ids[k])}

\* GET /users/me
SellerOk == [id |-> "2199171685"]
SellerResps == {SellerOk, ErrorResp}

\* -------------------------------------------------------------- state
VARIABLES
    dbAvailable,   \* server.js:7-13, db is null when database.js cannot be loaded
    snapshots,     \* table snapshots, in rowid order
    anuncios,      \* table anuncios, in rowid order
    alteracoes,    \* table alteracoes, in rowid order
    req,           \* the capture requests: position, locals, response
    clock,         \* CURRENT_TIMESTAMP and datetime('now'), in days
    seen,          \* the response of the last read request
    auth           \* the tokens: environment, token file, the calls of mlFetch

vars == <<dbAvailable, snapshots, anuncios, alteracoes, req, clock, seen, auth>>

NoRes == [status |-> 0]
Res500 == [status |-> 500]
Res503 == [status |-> 503]
ResOk(sid, n) == [status |-> 200, success |-> TRUE, snapshotId |-> sid, itemCount |-> n]

\* n counts the read requests answered
NoneSeen == [n |-> 0, status |-> 0]

\* srcFailed, phase, phases and threwAt are history: whether a call of the
\* marketplace threw or answered with an error object, the phase the cycle
\* reached, the phases it went through, and the number of the storage statement
\* that threw (0 for none)
IdleReq ==
    [pc |-> "idle", ids |-> << >>, listings |-> << >>, totalVendas |-> 0,
     srcFailed |-> FALSE, phase |-> "Idle", phases |-> << >>, threwAt |-> 0,
     res |-> NoRes]

\* Tokens are numbered by generation: the tokens the server starts with are 1,
\* every successful refresh issues the next number, 0 is no tokens (getTokens
\* returns null).  A token record {access_token, refresh_token, expires_at} is
\* its generation; expires_at is told by age, the time since the server issued
\* its latest tokens: 0 fresh, 1 less than 300000 ms before the expiry, 2
\* expired.
Calls == 1..MaxCalls

\* a call of mlFetch: its position, its local `tokens`, the number of API
\* requests it sent; afterSave is history, whether a refresh had saved tokens
\* when the call began
IdleCall == [pc |-> "idle", tokens |-> 0, apiSends |-> 0, afterSave |-> FALSE]

\* mode: "off" before app.listen, "env" with ML_ACCESS_TOKEN and
\* ML_REFRESH_TOKEN set, "file" with the tokens in data/tokens.json only,
\* "none" with neither.  file is the generation in the token file, current the
\* server's latest generation, whose refresh token is the one not used yet.
\* newest (the generation of the last save of refreshToken, 0 for none) and
\* sentRefresh (the refresh tokens sent to the token endpoint) are history.
NoAuth ==
    [mode |-> "off", file |-> 0, current |-> 1, age |-> 0, newest |-> 0,
     sentRefresh |-> {}, calls |-> [c \in Calls |-> IdleCall]]

Init ==
    /\ dbAvailable \in BOOLEAN
    /\ snapshots = << >>
    /\ anuncios = << >>
    /\ alteracoes = << >>
    /\ req = [r \in Reqs |-> IdleReq]
    /\ clock = 0
    /\ seen = NoneSeen
    /\ auth = NoAuth

Db == [snapshots |-> snapshots, anuncios |-> anuncios, alteracoes |-> alteracoes,
       now |-> clock]

\* ------------------------------------------ the capture handler's storage part
Max(S) == CHOOSE x \in S : \A y \in S : y <= x
Abs(x) == IF x < 0 THEN -x ELSE x

\* listings = details.map(d => d.body).filter(Boolean)
RECURSIVE BodiesOf(_)
BodiesOf(details) ==
    IF details = << >> THEN << >>
    ELSE IF "body" \in DOMAIN Head(details)
         THEN <<Head(details).body>> \o BodiesOf(Tail(details))
         ELSE BodiesOf(Tail(details))

\* TotalVendas that keeps the last sold count instead of adding it up
TotalVendasLast(listings) ==
    IF listings = << >> THEN 0
    ELSE IF "sold_quantity" \in DOMAIN listings[Len(listings)]
         THEN listings[Len(listings)].sold_quantity ELSE 0

\* listings.reduce((sum, i) => sum + (i.sold_quantity || 0), 0)
RECURSIVE TotalVendas(_)
TotalVendas(listings) ==
    IF listings = << >> THEN 0
    ELSE (IF "sold_quantity" \in DOMAIN Head(listings) THEN Head(listings).sold_quantity ELSE 0)
             + TotalVendas(Tail(listings))

\* INSERT INTO snapshots (seller_id, total_anuncios, total_vendas, data):
\* ticket_medio is not in the column list and has no default, captured_at
\* defaults to CURRENT_TIMESTAMP
SnapshotRow(sid, seller, listings, totalVendas, now) ==
    [id |-> sid,
     seller_id |-> BindText(seller, "id"),
     captured_at |-> now,
     total_anuncios |-> SqlInt(Len(listings)),
     total_vendas |-> SqlInt(totalVendas),
     ticket_medio |-> NULL,
     data |-> listings]

\* INSERT INTO anuncios (snapshot_id, ml_item_id, titulo, preco, ..., vendidos, ...)
AnuncioRow(rowid, sid, item) ==
    [id |-> rowid,
     snapshot_id |-> sid,
     ml_item_id |-> BindText(item, "id"),
     titulo |-> BindText(item, "title"),
     preco |-> BindReal(item, "price"),
     vendidos |-> BindInt(item, "sold_quantity")]

\* InsertAnuncios as INSERT OR REPLACE keyed by ml_item_id: the row an item
\* already has is deleted
RECURSIVE InsertAnunciosReplace(_, _, _, _, _)
InsertAnunciosReplace(rows, sid, listings, k, fault) ==
    IF k > Len(listings) THEN [rows |-> rows, ok |-> TRUE, stmts |-> k]
    ELSE LET row == AnuncioRow(Len(rows) + 1, sid, listings[k])
             kept == SelectSeq(rows, LAMBDA a : a.ml_item_id # row.ml_item_id)
         IN  IF fault = 1 + k \/ row.ml_item_id = NULL
             THEN [rows |-> rows, ok |-> FALSE, stmts |-> 1 + k]
             ELSE InsertAnunciosReplace(Append(kept, row), sid, listings, k + 1, fault)

\* for (const item of listings) INSERT INTO anuncios: statement 1 + k inserts
\* listing k; it throws when the storage fault hits it or when ml_item_id
\* (TEXT NOT NULL) would be NULL, and the rows inserted before it stay
RECURSIVE InsertAnuncios(_, _, _, _, _)
InsertAnuncios(rows, sid, listings, k, fault) ==
    IF k > Len(listings) THEN [rows |-> rows, ok |-> TRUE, stmts |-> k]
    ELSE LET row == AnuncioRow(Len(rows) + 1, sid, listings[k])
         IN  IF fault = 1 + k \/ row.ml_item_id = NULL
             THEN [rows |-> rows, ok |-> FALSE, stmts |-> 1 + k]
             ELSE InsertAnuncios(Append(rows, row), sid, listings, k + 1, fault)

\* SELECT * FROM anuncios WHERE snapshot_id = ?
SelectAnuncios(rows, sid) == SelectSeq(rows, LAMBDA a : a.snapshot_id = sid)

\* new Map(prevItems.map(i => [i.ml_item_id, i])) and prevMap.get(id)
PrevHas(prevItems, id) == \E k \in 1..Len(prevItems) : prevItems[k].ml_item_id = id
PrevGet(prevItems, id) ==
    prevItems[Max({k \in 1..Len(prevItems) : prevItems[k].ml_item_id = id})]

\* n / d rounded to the nearest integer, halves away from zero (d > 0)
RoundDiv(n, d) ==
    IF n >= 0 THEN (2 * n + d) \div (2 * d) ELSE -((2 * (-n) + d) \div (2 * d))

\* 0.01 of server.js:295, in thousandths; the double 0.01 is above the decimal
\* by 2 * 10^-19, less than one unit of e
Tolerance == 10

\* a - b of two doubles no more than a factor of two apart, or one of them 0,
\* which is exact
FloatSub(a, b) == Dbl(a.m - b.m, a.e - b.e)
\* Math.abs
FloatAbs(a) == IF a.m < 0 \/ (a.m = 0 /\ a.e < 0) THEN Dbl(-a.m, -a.e) ELSE a
\* a > 0.01
FloatGtTolerance(a) == a.m > Tolerance \/ (a.m = Tolerance /\ a.e > 0)

\* ((current.preco - prev.preco) / prev.preco * 100).toFixed(2) stored in the
\* REAL column variacao_pct: hundredths of a percent; a division by zero gives
\* the text Infinity, which REAL affinity leaves as text.  The representation
\* errors (10^-16 of the value) move a two-decimal rounding only at an exact
\* tie, which no pair of prices of the worlds above produces.
Variacao(cur, prev) ==
    IF prev.m = 0
    THEN SqlText(IF cur.m > 0 THEN "Infinity" ELSE "-Infinity")
    ELSE SqlReal(RoundDiv((cur.m - prev.m) * 10000, prev.m))

\* ChangeNovo with the item id where the title belongs
ChangeNovoId(current) ==
    [ml_item_id |-> current.ml_item_id, tipo |-> "novo",
     valor_anterior |-> NULL, valor_novo |-> current.ml_item_id,
     variacao_pct |-> NULL, vendas_antes |-> NULL, vendas_depois |-> NULL]

ChangeNovo(current) ==
    [ml_item_id |-> current.ml_item_id, tipo |-> "novo",
     valor_anterior |-> NULL, valor_novo |-> current.titulo,
     variacao_pct |-> NULL, vendas_antes |-> NULL, vendas_depois |-> NULL]

ChangePreco(current, prev) ==
    [ml_item_id |-> current.ml_item_id, tipo |-> "preco",
     valor_anterior |-> NumToText(prev.preco), valor_novo |-> NumToText(current.preco),
     variacao_pct |-> Variacao(current.preco[2], prev.preco[2]),
     vendas_antes |-> prev.vendidos, vendas_depois |-> current.vendidos]

ChangeTitulo(current, prev) ==
    [ml_item_id |-> current.ml_item_id, tipo |-> "titulo",
     valor_anterior |-> prev.titulo, valor_novo |-> current.titulo,
     variacao_pct |-> NULL, vendas_antes |-> NULL, vendas_depois |-> NULL]

\* PriceChanged without Math.abs
PriceChangedNoAbs(current, prev) ==
    FloatGtTolerance(FloatSub(current.preco[2], prev.preco[2]))

\* Math.abs(current.preco - prev.preco) > 0.01
PriceChanged(current, prev) ==
    FloatGtTolerance(FloatAbs(FloatSub(current.preco[2], prev.preco[2])))

\* TitleChanged that reads the wrong column of the previous row
TitleChangedWrongColumn(current, prev) == current.titulo # prev.ml_item_id

\* current.titulo !== prev.titulo
TitleChanged(current, prev) == current.titulo # prev.titulo

\* ChangesOf with the title compared only when the price did not change
ChangesOfElseIf(current, prevItems) ==
    IF ~PrevHas(prevItems, current.ml_item_id) THEN <<ChangeNovo(current)>>
    ELSE LET prev == PrevGet(prevItems, current.ml_item_id)
         IN  IF PriceChanged(current, prev) THEN <<ChangePreco(current, prev)>>
             ELSE IF TitleChanged(current, prev) THEN <<ChangeTitulo(current, prev)>>
             ELSE << >>

\* the records the loop of server.js:290-305 inserts for one current row
ChangesOf(current, prevItems) ==
    IF ~PrevHas(prevItems, current.ml_item_id) THEN <<ChangeNovo(current)>>
    ELSE LET prev == PrevGet(prevItems, current.ml_item_id)
         IN  (IF PriceChanged(current, prev) THEN <<ChangePreco(current, prev)>> ELSE << >>)
                 \o (IF TitleChanged(current, prev) THEN <<ChangeTitulo(current, prev)>> ELSE << >>)

\* Detect that also logs a record for every previous row whose item is gone
DetectWithRemoved(currentItems, prevItems) ==
    LET RECURSIVE Found(_)
        Found(cur) ==
            IF cur = << >> THEN << >> ELSE ChangesOf(Head(cur), prevItems) \o Found(Tail(cur))
        RECURSIVE Gone(_)
        Gone(prv) ==
            IF prv = << >> THEN << >>
            ELSE (IF PrevHas(currentItems, Head(prv).ml_item_id) THEN << >>
                  ELSE <<[ml_item_id |-> Head(prv).ml_item_id, tipo |-> "pausado",
                          valor_anterior |-> Head(prv).titulo, valor_novo |-> NULL,
                          variacao_pct |-> NULL, vendas_antes |-> NULL,
                          vendas_depois |-> NULL]>>) \o Gone(Tail(prv))
    IN  Found(currentItems) \o Gone(prevItems)

\* for (const current of currentItems) ...: the records in insertion order
RECURSIVE Detect(_, _)
Detect(currentItems, prevItems) ==
    IF currentItems = << >> THEN << >>
    ELSE ChangesOf(Head(currentItems), prevItems) \o Detect(Tail(currentItems), prevItems)

\* INSERT INTO alteracoes assigns the rowid and detectado_em, which defaults to
\* CURRENT_TIMESTAMP
RECURSIVE InsertAlteracoes(_, _, _)
InsertAlteracoes(rows, changes, now) ==
    IF changes = << >> THEN rows
    ELSE InsertAlteracoes(
             Append(rows, [id |-> Len(rows) + 1, detectado_em |-> now] @@ Head(changes)),
             Tail(changes), now)

\* PrevSnapshot with ORDER BY id ASC: the first snapshot instead of the latest
PrevSnapshotFirst(snaps, sid) ==
    LET ids == {snaps[k].id : k \in {j \in 1..Len(snaps) : snaps[j].id < sid}}
    IN  IF ids = {} THEN 0 ELSE CHOOSE x \in ids : \A y \in ids : x <= y

\* SELECT id FROM snapshots WHERE id < ? ORDER BY id DESC LIMIT 1, .get():
\* the id found, 0 for no row (ids start at 1)
PrevSnapshot(snaps, sid) ==
    LET ids == {snaps[k].id : k \in {j \in 1..Len(snaps) : snaps[j].id < sid}}
    IN  IF ids = {} THEN 0 ELSE Max(ids)

\* The handler from the snapshot insert to its response runs without yielding
\* once /users/me has answered (better-sqlite3 is synchronous).  A storage error
\* is the number of the statement that throws: fault = 0 is none, statement 1 is
\* the snapshot insert, 2..n+1 the listing inserts, n+2 the lookup of the
\* previous snapshot, n+3 and n+4 the two listing selects, n+5.. the change
\* inserts.  Every statement runs in autocommit mode, so what was inserted
\* before the throw stays.  stmts is the number of statements executed and
\* phase the phase the handler was in when it ended.

\* server.js:266-281: the snapshot row, then one row per listing
PersistSnapshot(d, seller, listings, totalVendas, fault) ==
    LET sid == Len(d.snapshots) + 1
        srow == SnapshotRow(sid, seller, listings, totalVendas, d.now)
    IN  IF fault = 1 \/ srow.seller_id = NULL
        THEN [db |-> d, ok |-> FALSE, sid |-> sid, stmts |-> 1]
        ELSE LET ins == InsertAnuncios(d.anuncios, sid, listings, 1, fault)
             IN  [db |-> [d EXCEPT !.snapshots = Append(d.snapshots, srow),
                                   !.anuncios = ins.rows],
                  ok |-> ins.ok, sid |-> sid, stmts |-> ins.stmts]

\* DiffAndLog without the baseline case: a first capture is diffed against no
\* rows instead of being skipped
DiffAndLogNoBaseline(d, sid, n, fault) ==
    LET prev == PrevSnapshot(d.snapshots, sid)
        changes == Detect(SelectAnuncios(d.anuncios, sid), SelectAnuncios(d.anuncios, prev))
        failed == fault \in (n + 5)..(n + 4 + Len(changes))
        done == IF failed THEN fault - (n + 5) ELSE Len(changes)
    IN  IF fault \in {n + 2, n + 3, n + 4}
        THEN [db |-> d, ok |-> FALSE, stmts |-> fault, phase |-> "Diffing"]
        ELSE [db |-> [d EXCEPT !.alteracoes =
                         InsertAlteracoes(d.alteracoes, SubSeq(changes, 1, done), d.now)],
              ok |-> ~failed,
              stmts |-> n + 4 + Len(changes),
              phase |-> IF failed THEN "PersistingChanges" ELSE "Done"]

\* server.js:284-306: look the previous snapshot up, diff, insert the records
DiffAndLog(d, sid, n, fault) ==
    LET prev == PrevSnapshot(d.snapshots, sid)
        changes == Detect(SelectAnuncios(d.anuncios, sid), SelectAnuncios(d.anuncios, prev))
        failed == fault \in (n + 5)..(n + 4 + Len(changes))
        done == IF failed THEN fault - (n + 5) ELSE Len(changes)
    IN  IF fault = n + 2
        THEN [db |-> d, ok |-> FALSE, stmts |-> n + 2, phase |-> "Diffing"]
        ELSE IF prev = 0
        THEN [db |-> d, ok |-> TRUE, stmts |-> n + 2, phase |-> "Done"]
        ELSE IF fault \in {n + 3, n + 4}
        THEN [db |-> d, ok |-> FALSE, stmts |-> fault, phase |-> "Diffing"]
        ELSE [db |-> [d EXCEPT !.alteracoes =
                         InsertAlteracoes(d.alteracoes, SubSeq(changes, 1, done), d.now)],
              ok |-> ~failed,
              stmts |-> n + 4 + Len(changes),
              phase |-> IF failed THEN "PersistingChanges" ELSE "Done"]

\* StorageSection as one transaction: a failure after the snapshot was written
\* takes the snapshot and its listings back
StorageSectionRollback(d, seller, listings, totalVendas, fault) ==
    LET p == PersistSnapshot(d, seller, listings, totalVendas, fault)
    IN  IF ~p.ok
        THEN [db |-> d, ok |-> FALSE, sid |-> p.sid, stmts |-> p.stmts,
              phase |-> "PersistingSnapshot"]
        ELSE LET c == DiffAndLog(p.db, p.sid, Len(listings), fault)
             IN  [db |-> IF c.ok THEN c.db ELSE d, ok |-> c.ok, sid |-> p.sid,
                  stmts |-> c.stmts, phase |-> c.phase]

\* StorageSection that goes on to the diff when a listing insert has thrown
StorageSectionKeepsGoing(d, seller, listings, totalVendas, fault) ==
    LET p == PersistSnapshot(d, seller, listings, totalVendas, fault)
    IN  IF ~p.ok /\ p.stmts = 1
        THEN [db |-> p.db, ok |-> FALSE, sid |-> p.sid, stmts |-> p.stmts,
              phase |-> "PersistingSnapshot"]
        ELSE LET c == DiffAndLog(p.db, p.sid, Len(listings), fault)
             IN  [db |-> c.db, ok |-> p.ok /\ c.ok, sid |-> p.sid,
                  stmts |-> IF p.ok THEN c.stmts ELSE p.stmts,
                  phase |-> IF p.ok THEN c.phase ELSE "PersistingSnapshot"]

\* server.js:266-308
StorageSection(d, seller, listings, totalVendas, fault) ==
    LET p == PersistSnapshot(d, seller, listings, totalVendas, fault)
    IN  IF ~p.ok
        THEN [db |-> p.db, ok |-> FALSE, sid |-> p.sid, stmts |-> p.stmts,
              phase |-> "PersistingSnapshot"]
        ELSE LET c == DiffAndLog(p.db, p.sid, Len(listings), fault)
             IN  [db |-> c.db, ok |-> c.ok, sid |-> p.sid, stmts |-> c.stmts,
                  phase |-> c.phase]

\* The phases of a capture cycle, by the code that runs in them: Fetching is
\* an await of mlFetch (server.js:255, 259, 264), Aggregating the reduce of
\* line 263, PersistingSnapshot the inserts of lines 266-281, Diffing the lookup
\* and the selects of lines 284-288 and the comparisons of lines 291-292, 295
\* and 301, PersistingChanges an insert of lines 293, 297 or 302, Done line 308
\* and Failed line 310 (and the 503 of line 253).

\* the phases one current row takes the loop of lines 290-305 through
ItemEvents(current, prevItems) ==
    IF ~PrevHas(prevItems, current.ml_item_id)
    THEN <<"Diffing", "PersistingChanges">>
    ELSE LET prev == PrevGet(prevItems, current.ml_item_id)
         IN  <<"Diffing">>
                 \o (IF PriceChanged(current, prev)
                     THEN <<"PersistingChanges", "Diffing">> ELSE << >>)
                 \o (IF TitleChanged(current, prev) THEN <<"PersistingChanges">> ELSE << >>)

RECURSIVE LoopEvents(_, _)
LoopEvents(currentItems, prevItems) ==
    IF currentItems = << >> THEN << >>
    ELSE ItemEvents(Head(currentItems), prevItems)
             \o LoopEvents(Tail(currentItems), prevItems)

\* the events up to the k-th insert, the one that throws
RECURSIVE UpToInsert(_, _)
UpToInsert(events, k) ==
    IF events = << >> THEN << >>
    ELSE IF Head(events) = "PersistingChanges" /\ k = 1 THEN <<Head(events)>>
    ELSE <<Head(events)>>
             \o UpToInsert(Tail(events), IF Head(events) = "PersistingChanges" THEN k - 1 ELSE k)

\* the phases of server.js:266-311 for the statement that throws
StorageTrail(d, seller, listings, totalVendas, fault) ==
    LET p == PersistSnapshot(d, seller, listings, totalVendas, fault)
        n == Len(listings)
        prev == PrevSnapshot(p.db.snapshots, p.sid)
        events == LoopEvents(SelectAnuncios(p.db.anuncios, p.sid),
                             SelectAnuncios(p.db.anuncios, prev))
    IN  IF ~p.ok THEN <<"PersistingSnapshot", "Failed">>
        ELSE IF fault = n + 2 THEN <<"PersistingSnapshot", "Diffing", "Failed">>
        ELSE IF prev = 0 THEN <<"PersistingSnapshot", "Diffing", "Done">>
        ELSE IF fault \in {n + 3, n + 4} THEN <<"PersistingSnapshot", "Diffing", "Failed">>
        ELSE IF fault >= n + 5
        THEN <<"PersistingSnapshot", "Diffing">>
                 \o UpToInsert(events, fault - (n + 4)) \o <<"Failed">>
        ELSE <<"PersistingSnapshot", "Diffing">> \o events \o <<"Done">>

\* the phases gone through, a phase that lasts counted once
RECURSIVE Enter(_, _)
Enter(phases, trail) ==
    IF trail = << >> THEN phases
    ELSE IF phases # << >> /\ phases[Len(phases)] = Head(trail)
         THEN Enter(phases, Tail(trail))
         ELSE Enter(Append(phases, Head(trail)), Tail(trail))

\* ------------------------------------------------------------- actions
\* the store is capped at MaxRows captured listings: a search answers with no
\* more ids than are left, counting the listings of the requests in flight
RECURSIVE Captured(_)
Captured(snaps) == IF snaps = << >> THEN 0 ELSE Len(Head(snaps).data) + Captured(Tail(snaps))
RECURSIVE InFlight(_)
InFlight(n) ==
    IF n = 0 THEN 0 ELSE Len(req[n].ids) + Len(req[n].listings) + InFlight(n - 1)
RowsLeft ==
    LET used == Captured(snapshots) + InFlight(MaxReqs)
    IN  IF used >= MaxRows THEN 0 ELSE MaxRows - used

\* res.json(...) or res.status(...).json(...): the handler ends
Respond(r, res, phase, trail, srcFailed, threwAt) ==
    req' = [req EXCEPT ![r].pc = "done", ![r].res = res, ![r].phase = phase,
                       ![r].phases = Enter(@, trail),
                       ![r].srcFailed = srcFailed, ![r].threwAt = threwAt,
                       ![r].ids = << >>, ![r].listings = << >>, ![r].totalVendas = 0]

\* POST /api/history/capture arrives: server.js:252-255.  The requests arrive
\* in the order of their numbers; unless the clients overlap them, one arrives
\* after the one before it was answered (spec section 5).
StartCapture(r, W) ==
    /\ req[r].pc = "idle"
    /\ r <= W.reqs
    /\ \A q \in Reqs : q < r =>
           IF W.overlap THEN req[q].pc # "idle" ELSE req[q].pc = "done"
    /\ IF dbAvailable
       THEN req' = [req EXCEPT ![r].pc = "items", ![r].phase = "Fetching",
                               ![r].phases = <<"Fetching">>]
       ELSE Respond(r, Res503, "Failed", <<"Failed">>, FALSE, 0)
    /\ UNCHANGED <<dbAvailable, snapshots, anuncios, alteracoes, clock, seen, auth>>

\* await mlFetch('/users/.../items/search') settles: server.js:255-258, 263-264
ItemsResolved(r, W) ==
    /\ req[r].pc = "items"
    /\ \/ Respond(r, Res500, "Fetching", <<"Failed">>, TRUE, 0)
       \/ \E resp \in ItemsResps(W, RowsLeft) :
            IF "results" \in DOMAIN resp /\ Len(resp.results) > 0
            THEN req' = [req EXCEPT ![r].pc = "details", ![r].ids = resp.results]
            ELSE req' = [req EXCEPT ![r].pc = "seller", ![r].listings = << >>,
                                    ![r].totalVendas = TotalVendas(<< >>),
                                    ![r].phases = Enter(@, <<"Aggregating", "Fetching">>),
                                    ![r].srcFailed = "error" \in DOMAIN resp]
    /\ UNCHANGED <<dbAvailable, snapshots, anuncios, alteracoes, clock, seen, auth>>

\* DetailsResolved that inserts the snapshot row before it awaits /users/me
DetailsResolvedWrites(r, W) ==
    /\ req[r].pc = "details"
    /\ \E details \in DetailsResps(W, req[r].ids) :
            LET listings == BodiesOf(details)
            IN  /\ req' = [req EXCEPT ![r].pc = "seller", ![r].ids = << >>,
                                      ![r].listings = listings,
                                      ![r].totalVendas = TotalVendas(listings),
                                      ![r].phases = Enter(@, <<"Aggregating", "Fetching">>)]
                /\ snapshots' = Append(snapshots,
                       SnapshotRow(Len(snapshots) + 1, SellerOk, listings,
                                   TotalVendas(listings), clock))
    /\ UNCHANGED <<dbAvailable, anuncios, alteracoes, clock, seen, auth>>

\* await mlFetch('/items?ids=...') settles: server.js:259-264
DetailsResolved(r, W) ==
    /\ req[r].pc = "details"
    /\ \/ \* mlFetch threw, or the answer is an error object and details.map throws
          Respond(r, Res500, "Fetching", <<"Failed">>, TRUE, 0)
       \/ \E details \in DetailsResps(W, req[r].ids) :
            LET listings == BodiesOf(details)
            IN  req' = [req EXCEPT ![r].pc = "seller", ![r].ids = << >>,
                                   ![r].listings = listings,
                                   ![r].totalVendas = TotalVendas(listings),
                                   ![r].phases = Enter(@, <<"Aggregating", "Fetching">>)]
    /\ UNCHANGED <<dbAvailable, snapshots, anuncios, alteracoes, clock, seen, auth>>

\* await mlFetch('/users/me') settles and the handler runs to its response:
\* server.js:264-311
SellerResolved(r) ==
    /\ req[r].pc = "seller"
    /\ \/ /\ Respond(r, Res500, "Fetching", <<"Failed">>, TRUE, 0)
          /\ UNCHANGED <<snapshots, anuncios, alteracoes>>
       \/ \E seller \in SellerResps :
          \E fault \in 0..StorageSection(Db, seller, req[r].listings, req[r].totalVendas, 0).stmts :
            LET out == StorageSection(Db, seller, req[r].listings, req[r].totalVendas, fault)
            IN  /\ snapshots' = out.db.snapshots
                /\ anuncios' = out.db.anuncios
                /\ alteracoes' = out.db.alteracoes
                /\ Respond(r, IF out.ok THEN ResOk(out.sid, Len(req[r].listings)) ELSE Res500,
                           out.phase,
                           StorageTrail(Db, seller, req[r].listings, req[r].totalVendas, fault),
                           req[r].srcFailed \/ "error" \in DOMAIN seller,
                           IF out.ok THEN 0 ELSE out.stmts)
    /\ UNCHANGED <<dbAvailable, clock, seen, auth>>

\* ------------------------------------------------------------ read requests
\* A result set ordered by a timestamp is a sequence of groups, latest first;
\* a group is the bag of the rows with one timestamp, which come in an order
\* the query does not fix.
RECURSIVE GroupsDesc(_, _)
GroupsDesc(B, key) ==
    IF DOMAIN B = {} THEN << >>
    ELSE LET t == Max({x[key] : x \in DOMAIN B})
             now == {x \in DOMAIN B : x[key] = t}
         IN  <<[x \in now |-> B[x]]>>
                 \o GroupsDesc([x \in DOMAIN B \ now |-> B[x]], key)

\* LIMIT n: the first n rows; of the group the limit cuts any n may come
RECURSIVE Limited(_, _)
Limited(groups, n) ==
    IF groups = << >> \/ n = 0 THEN {<< >>}
    ELSE LET g == Head(groups)
         IN  IF BagCardinality(g) <= n
             THEN {<<g>> \o rest : rest \in Limited(Tail(groups), n - BagCardinality(g))}
             ELSE {<<b>> : b \in {x \in SubBag(g) : BagCardinality(x) = n}}

SnapshotsLimit == 30
ChangesLimit == 100

\* SELECT * FROM snapshots ORDER BY captured_at DESC LIMIT 30
SnapshotsQuery(d) ==
    Limited(GroupsDesc(SetToBag({d.snapshots[k] : k \in 1..Len(d.snapshots)}), "captured_at"),
            SnapshotsLimit)

\* alteracoes a LEFT JOIN anuncios an ON a.ml_item_id = an.ml_item_id
\*              LEFT JOIN snapshots s ON an.snapshot_id = s.id:
\* a.* and s.captured_at for every pair of a change record and a listing row of
\* its item, k = 0 for a record without such a row
JoinPairs(d) ==
    {<<i, k>> \in (1..Len(d.alteracoes)) \X (0..Len(d.anuncios)) :
        IF k = 0
        THEN \A j \in 1..Len(d.anuncios) :
                 d.anuncios[j].ml_item_id # d.alteracoes[i].ml_item_id
        ELSE d.anuncios[k].ml_item_id = d.alteracoes[i].ml_item_id}
SnapshotDate(d, k) ==
    LET s == {j \in 1..Len(d.snapshots) : k > 0 /\ d.snapshots[j].id = d.anuncios[k].snapshot_id}
    IN  IF s = {} THEN NULL ELSE SqlDate(d.snapshots[CHOOSE j \in s : TRUE].captured_at)
JoinRow(d, p) == d.alteracoes[p[1]] @@ [snapshot_date |-> SnapshotDate(d, p[2])]

\* WHERE a.detectado_em >= datetime('now', '-<days> days')
\* ORDER BY a.detectado_em DESC LIMIT 100
ChangesQuery(d, days) ==
    LET pairs == {p \in JoinPairs(d) : d.alteracoes[p[1]].detectado_em >= d.now - days}
        rows == {JoinRow(d, p) : p \in pairs}
        B == [x \in rows |-> Cardinality({p \in pairs : JoinRow(d, p) = x})]
    IN  Limited(GroupsDesc(B, "detectado_em"), ChangesLimit)

\* the capture requests between their arrival and their response
InFlightReqs == {r \in Reqs : req[r].pc \in {"items", "details", "seller"}}

\* res.json(...) of a read request; during is history, the capture requests in
\* flight when the read ran
Answer(res) ==
    /\ seen.n < MaxReads
    /\ seen' = [n |-> seen.n + 1, during |-> InFlightReqs] @@ res
    /\ UNCHANGED <<dbAvailable, snapshots, anuncios, alteracoes, req, clock, auth>>

\* GET /api/history/snapshots: server.js:229-233
ReadSnapshots ==
    IF dbAvailable
    THEN \E rows \in SnapshotsQuery(Db) :
             Answer([status |-> 200, kind |-> "snapshots", rows |-> rows])
    ELSE Answer(Res503)

\* GET /api/history/changes: server.js:236-249
ReadChanges ==
    IF dbAvailable
    THEN \E days \in QueryDays : \E rows \in ChangesQuery(Db, days) :
             Answer([status |-> 200, kind |-> "changes", days |-> days, rows |-> rows])
    ELSE Answer(Res503)

\* a day passes
Tick ==
    /\ clock < MaxDay
    /\ clock' = clock + 1
    /\ UNCHANGED <<dbAvailable, snapshots, anuncios, alteracoes, req, seen, auth>>

\* ------------------------------------------------------------------ tokens
Others == <<dbAvailable, snapshots, anuncios, alteracoes, req, clock, seen>>

\* the server starts: server.js:19-22, 314-325
Listen(mode) ==
    /\ auth.mode = "off"
    /\ auth' = [auth EXCEPT !.mode = mode, !.file = IF mode = "file" THEN 1 ELSE 0]
    /\ UNCHANGED Others

\* the tokens get older
TimePasses ==
    /\ auth.mode # "off"
    /\ auth.age < 2
    /\ auth' = [auth EXCEPT !.age = @ + 1]
    /\ UNCHANGED Others

\* getTokens(): the environment first, then the file
GetTokens(a) == IF a.mode = "env" THEN 1 ELSE a.file

\* Date.now() > tokens.expires_at - 300000; the tokens of the environment
\* get expires_at = Date.now() + 21600000 at every call of getTokens
NearExpiry(a) == a.mode # "env" /\ a.age >= 1

\* refreshToken(tokens) up to its await: the POST to /oauth/token is sent
SendRefresh(a, c, tokens, pc) ==
    [a EXCEPT !.calls[c].pc = pc, !.calls[c].tokens = tokens,
              !.sentRefresh = @ \cup {tokens}]

\* fetch(url, {headers: Authorization: Bearer access_token}) is sent
SendApi(a, c, tokens, pc) ==
    [a EXCEPT !.calls[c].pc = pc, !.calls[c].tokens = tokens,
              !.calls[c].apiSends = @ + 1]

\* mlFetch(path) is called and runs to its first await: server.js:69-79
StartFetch(c) ==
    /\ auth.mode # "off"
    /\ auth.calls[c].pc = "idle"
    /\ \A b \in Calls : b < c => auth.calls[b].pc # "idle"
    /\ LET tokens == GetTokens(auth)
           a == [auth EXCEPT !.calls[c].afterSave = auth.newest > 0]
       IN  auth' = IF tokens = 0 THEN [a EXCEPT !.calls[c].pc = "threw"]
                   ELSE IF NearExpiry(auth) THEN SendRefresh(a, c, tokens, "refresh1")
                   ELSE SendApi(a, c, tokens, "api")
    /\ UNCHANGED Others

\* the answer of /oauth/token arrives: server.js:58-66, then 77-79 or 83-84.
\* The server issues new tokens for the refresh token it has not seen yet and
\* answers any other with an error; any request can fail.
RefreshResolved(c) ==
    /\ auth.calls[c].pc \in {"refresh1", "refresh2"}
    /\ \/ auth' = [auth EXCEPT !.calls[c].pc = "threw"]
       \/ /\ auth.calls[c].tokens = auth.current
          /\ LET new == auth.current + 1
                 saved == [auth EXCEPT !.current = new, !.age = 0, !.file = new,
                                       !.newest = new]
             IN  auth' = SendApi(saved, c, new,
                                 IF auth.calls[c].pc = "refresh1" THEN "api" ELSE "retry")
    /\ UNCHANGED Others

\* the HTTP status the API answers a request with: the latest access token is
\* accepted until it expires, an earlier one may be or not
ApiStatus(a, access) ==
    IF access = a.current THEN (IF a.age = 2 THEN {401} ELSE {200}) ELSE {200, 401}

\* the answer of the API arrives: server.js:79-87
ApiResolved(c) ==
    /\ auth.calls[c].pc \in {"api", "retry"}
    /\ \/ auth' = [auth EXCEPT !.calls[c].pc = "threw"]
       \/ \E status \in ApiStatus(auth, auth.calls[c].tokens) :
            auth' = IF status = 401 /\ auth.calls[c].pc = "api"
                    THEN SendRefresh(auth, c, auth.calls[c].tokens, "refresh2")
                    ELSE [auth EXCEPT !.calls[c].pc = "returned"]
    /\ UNCHANGED Others

NextTokens ==
    \/ \E mode \in {"env", "file", "none"} : Listen(mode)
    \/ TimePasses
    \/ \E c \in Calls : StartFetch(c) \/ RefreshResolved(c) \/ ApiResolved(c)
SpecTokens == Init /\ [][NextTokens]_vars

NextIn(W) == \E r \in Reqs :
    \/ StartCapture(r, W)
    \/ ItemsResolved(r, W)
    \/ DetailsResolved(r, W)
    \/ SellerResolved(r)

Next == NextIn(World)
Spec == Init /\ [][Next]_vars

\* the same program against a marketplace with one item and prices around the
\* tolerance
NextPrice == NextIn(PriceWorld)
SpecPrice == Init /\ [][NextPrice]_vars

\* the same program against a marketplace whose listings differ in sold count
NextTotals == NextIn(TotalsWorld)
SpecTotals == Init /\ [][NextTotals]_vars

\* the same program against a marketplace whose search can list an id twice
NextDups == NextIn(DupWorld)
SpecDups == Init /\ [][NextDups]_vars

\* the capture requests and the read requests against a marketplace with one
\* item
NextRead == NextIn(ReadWorld) \/ ReadSnapshots \/ ReadChanges
SpecRead == Init /\ [][NextRead]_vars

\* the same with days passing
NextDays == NextRead \/ Tick
SpecDays == Init /\ [][NextDays]_vars

\* the same program against a marketplace whose item can have the price 0
NextZero == NextIn(ZeroWorld)
SpecZero == Init /\ [][NextZero]_vars

\* the same program with a longer sequence of capture cycles
NextSeq == NextIn(SeqWorld)
SpecSeq == Init /\ [][NextSeq]_vars

\* the same program with overlapping capture requests
NextOverlap == NextIn(OverlapWorld)
SpecOverlap == Init /\ [][NextOverlap]_vars

\* ------------------------------------------------------------ properties
IsPrefix(a, b) == Len(a) <= Len(b) /\ SubSeq(b, 1, Len(a)) = a
Suffix(a, b) == SubSeq(b, Len(a) + 1, Len(b))

\* request r's step from the answer of /users/me to its response
StorageStep(r) == req[r].pc = "seller" /\ req'[r].pc = "done"
Succeeds(r) == StorageStep(r) /\ req'[r].res.status = 200
Fails(r) == req[r].pc # "done" /\ req'[r].pc = "done" /\ req'[r].res.status # 200

\* the rows a capture stores for its listings, starting after `before` rows
ListingRows(before, sid, listings) ==
    [k \in 1..Len(listings) |-> AnuncioRow(before + k, sid, listings[k])]

\* C1: snapshot write atomicity.  In every state every stored snapshot has
\* exactly total_anuncios listing rows under its id.
C1_SnapshotAtomic ==
    \A k \in 1..Len(snapshots) :
        Len(SelectAnuncios(anuncios, snapshots[k].id)) = snapshots[k].total_anuncios[2]

\* C2: first-capture baseline.  A capture that succeeds on an empty snapshot
\* store leaves exactly one snapshot, the rows of its listings and no change
\* record.
C2_FirstCaptureBaseline ==
    [][\A r \in Reqs :
        (snapshots = << >> /\ Succeeds(r)) =>
            /\ Len(snapshots') = 1
            /\ snapshots'[1].data = req[r].listings
            /\ anuncios' = ListingRows(0, 1, req[r].listings)
            /\ alteracoes' = << >>]_vars

C2_Witness ==
    /\ Len(snapshots) = 1
    /\ Len(anuncios) = 2
    /\ alteracoes = << >>
    /\ \E r \in Reqs : req[r].res = ResOk(1, 2)

\* C3: failure aborts the cycle and is surfaced.  A cycle in which a call of
\* the marketplace threw or answered with an error object writes nothing from
\* then on and ends with a failure response.
C3_FailureSurfaced ==
    [][\A r \in Reqs :
        /\ (req[r].srcFailed /\ req[r].pc # "done") =>
               UNCHANGED <<snapshots, anuncios, alteracoes>>
        /\ (req'[r].srcFailed /\ req'[r].pc = "done") => req'[r].res.status # 200]_vars

\* C4: no rollback and no damage on late failure.  When a cycle fails while
\* diffing or while inserting change records, its snapshot and all of its
\* listing rows are stored and everything stored before the cycle is unchanged.
C4_LateFailureKeepsState ==
    [][\A r \in Reqs :
        (Fails(r) /\ req'[r].phase \in {"Diffing", "PersistingChanges"}) =>
            /\ IsPrefix(snapshots, snapshots')
            /\ IsPrefix(anuncios, anuncios')
            /\ IsPrefix(alteracoes, alteracoes')
            /\ Len(snapshots') = Len(snapshots) + 1
            /\ snapshots'[Len(snapshots')].data = req[r].listings
            /\ Suffix(anuncios, anuncios')
                   = ListingRows(Len(anuncios), Len(snapshots) + 1, req[r].listings)]_vars

C4_Witness ==
    /\ Len(snapshots) = 2
    /\ Len(SelectAnuncios(anuncios, 1)) = 1
    /\ Len(SelectAnuncios(anuncios, 2)) = 1
    /\ \E r \in Reqs : req[r].res = Res500 /\ req[r].phase = "PersistingChanges"

\* the change records a step appends for one item, as indices of the appended
\* records
RecordsFor(new, item) == {i \in 1..Len(new) : new[i].ml_item_id = SqlText(item)}
RecordsOfType(new, item, tipo) == {i \in RecordsFor(new, item) : new[i].tipo = tipo}

\* a successful cycle of request r that has a previous snapshot
DiffStep(r) == Succeeds(r) /\ snapshots # << >>
\* the stored rows of the snapshot the cycle is diffed against
PrevRows == SelectAnuncios(anuncios, Len(snapshots))

\* C5: new-item detection.  For every fetched listing whose item id is not in
\* the previous snapshot the cycle appends exactly one record for the item: a
\* 'novo' record with the title as new value and nothing else set.
C5_NewItemDetected ==
    [][\A r \in Reqs : DiffStep(r) =>
        LET new == Suffix(alteracoes, alteracoes')
        IN  \A k \in 1..Len(req[r].listings) :
              LET c == req[r].listings[k]
              IN  (\A j \in 1..Len(PrevRows) : PrevRows[j].ml_item_id # SqlText(c.id)) =>
                    \E i \in 1..Len(new) :
                        /\ RecordsFor(new, c.id) = {i}
                        /\ new[i].tipo = "novo"
                        /\ new[i].valor_novo = SqlText(c.title)
                        /\ new[i].valor_anterior = NULL
                        /\ new[i].variacao_pct = NULL
                        /\ new[i].vendas_antes = NULL
                        /\ new[i].vendas_depois = NULL]_vars

C5_Witness ==
    /\ Len(snapshots) = 2
    /\ \A j \in 1..Len(SelectAnuncios(anuncios, 1)) :
           SelectAnuncios(anuncios, 1)[j].ml_item_id = SqlText("A")
    /\ Len(SelectAnuncios(anuncios, 1)) = 1
    /\ \E i \in 1..Len(alteracoes) :
           /\ alteracoes[i].tipo = "novo"
           /\ alteracoes[i].ml_item_id = SqlText("B")
           /\ alteracoes[i].valor_novo = SqlText("New Name")
    /\ \A r \in 1..MaxReqs : req[r].res.status = 200

\* |c - p| > 0.01 of two prices as the real numbers the doubles are: the
\* decimals differ by more than 10 thousandths, or by exactly 10 and the
\* representation errors widen the gap
DiffersByMoreThanCent(c, p) ==
    LET dm == Abs(c.m - p.m)
        de == IF c.m >= p.m THEN c.e - p.e ELSE p.e - c.e
    IN  dm > 10 \/ (dm = 10 /\ de > 0)

\* C6: price-change detection.  For every fetched listing c with a row p of the
\* same item in the previous snapshot a 'preco' record is appended iff the
\* prices differ by more than 0.01; it carries both prices as text, both sold
\* counts and the percentage (c - p) / p * 100 rounded to two decimals
\* (hundredths of a percent: the nearest integer to (c - p) * 10000 / p).
C6_PriceChangeDetected ==
    [][\A r \in Reqs : DiffStep(r) =>
        LET new == Suffix(alteracoes, alteracoes')
        IN  \A k \in 1..Len(req[r].listings), j \in 1..Len(PrevRows) :
              LET c == req[r].listings[k]
                  p == PrevRows[j]
                  pm == p.preco[2].m
                  recs == RecordsOfType(new, c.id, "preco")
              IN  p.ml_item_id = SqlText(c.id) =>
                    /\ Abs(c.price.m - pm) < 10 => recs = {}
                    /\ IF DiffersByMoreThanCent(c.price, p.preco[2])
                       THEN \E i \in 1..Len(new) :
                              /\ recs = {i}
                              /\ new[i].valor_anterior = SqlText(ToString(pm))
                              /\ new[i].valor_novo = SqlText(ToString(c.price.m))
                              /\ new[i].variacao_pct[1] = "real"
                              /\ 2 * Abs(new[i].variacao_pct[2] * pm
                                           - (c.price.m - pm) * 10000) <= pm
                              /\ (pm = 100000 /\ c.price.m = 110000) =>
                                     new[i].variacao_pct[2] = 1000
                              /\ new[i].vendas_antes = p.vendidos
                              /\ new[i].vendas_depois = SqlInt(c.sold_quantity)
                       ELSE recs = {}]_vars

C6_Witness ==
    /\ \E i \in 1..Len(alteracoes) :
           /\ alteracoes[i].tipo = "preco"
           /\ alteracoes[i].valor_anterior = SqlText("100000")
           /\ alteracoes[i].valor_novo = SqlText("110000")
           /\ alteracoes[i].variacao_pct = SqlReal(1000)
           /\ alteracoes[i].vendas_antes = SqlInt(2)
           /\ alteracoes[i].vendas_depois = SqlInt(3)
    /\ \A r \in 1..MaxReqs : req[r].res.status = 200

\* C7: title-change detection.  For every fetched listing c with a row p of the
\* same item in the previous snapshot a 'titulo' record with both titles is
\* appended iff the titles differ, whatever the prices; when the title differs
\* and the price is the same, it is the only record of the item.
C7_TitleChangeDetected ==
    [][\A r \in Reqs : DiffStep(r) =>
        LET new == Suffix(alteracoes, alteracoes')
        IN  \A k \in 1..Len(req[r].listings), j \in 1..Len(PrevRows) :
              LET c == req[r].listings[k]
                  p == PrevRows[j]
                  recs == RecordsOfType(new, c.id, "titulo")
              IN  p.ml_item_id = SqlText(c.id) =>
                    /\ IF SqlText(c.title) # p.titulo
                       THEN \E i \in 1..Len(new) :
                              /\ recs = {i}
                              /\ new[i].valor_anterior = p.titulo
                              /\ new[i].valor_novo = SqlText(c.title)
                              /\ new[i].variacao_pct = NULL
                       ELSE recs = {}
                    /\ (SqlText(c.title) # p.titulo /\ c.price = p.preco[2]) =>
                           /\ RecordsFor(new, c.id) = recs
                           /\ RecordsOfType(new, c.id, "preco") = {}]_vars

C7_Witness ==
    /\ Len(alteracoes) = 1
    /\ alteracoes[1].tipo = "titulo"
    /\ alteracoes[1].valor_anterior = SqlText("Old Name")
    /\ alteracoes[1].valor_novo = SqlText("New Name")
    /\ \A r \in 1..MaxReqs : req[r].res.status = 200

\* the item ids, titles and prices of a fetched listing set and of stored rows
TriplesOfListings(listings) ==
    {<<SqlText(listings[k].id), SqlText(listings[k].title), SqlReal(listings[k].price)>> :
        k \in 1..Len(listings)}
TriplesOfRows(rows) ==
    {<<rows[k].ml_item_id, rows[k].titulo, rows[k].preco>> : k \in 1..Len(rows)}

\* C8: no false positives.  A successful cycle whose fetched listing set has the
\* item ids, titles and prices stored in the previous snapshot leaves the
\* change log as it was.
C8_NoFalsePositives ==
    [][\A r \in Reqs :
        (DiffStep(r) /\ TriplesOfListings(req[r].listings) = TriplesOfRows(PrevRows))
            => alteracoes' = alteracoes]_vars

C8_Witness ==
    /\ Len(snapshots) = 2
    /\ Len(snapshots[1].data) = 1
    /\ snapshots[2].data = snapshots[1].data
    /\ Len(anuncios) = 2
    /\ alteracoes = << >>
    /\ \A r \in 1..MaxReqs : req[r].res.status = 200

RECURSIVE SumSoldUpTo(_, _)
SumSoldUpTo(listings, k) ==
    IF k = 0 THEN 0 ELSE listings[k].sold_quantity + SumSoldUpTo(listings, k - 1)
RECURSIVE SumPriceUpTo(_, _)
SumPriceUpTo(listings, k) ==
    IF k = 0 THEN 0 ELSE listings[k].price.m + SumPriceUpTo(listings, k - 1)

\* C9: aggregate correctness.  Every snapshot a cycle writes has total_anuncios
\* equal to the number of fetched listings and total_vendas equal to the sum of
\* their sold counts; a cycle with an empty fetched set in which no call of the
\* marketplace failed and no statement threw succeeds and writes 0, 0 and a
\* NULL average.
C9_Aggregates ==
    [][\A r \in Reqs : StorageStep(r) =>
        LET ls == req[r].listings
            row == snapshots'[Len(snapshots')]
        IN  /\ Len(snapshots') = Len(snapshots) + 1 =>
                  /\ row.total_anuncios = SqlInt(Len(ls))
                  /\ row.total_vendas = SqlInt(SumSoldUpTo(ls, Len(ls)))
            /\ (ls = << >> /\ ~req'[r].srcFailed /\ req'[r].threwAt = 0) =>
                  /\ req'[r].res.status = 200
                  /\ Len(snapshots') = Len(snapshots) + 1
                  /\ row.total_anuncios = SqlInt(0)
                  /\ row.total_vendas = SqlInt(0)
                  /\ row.ticket_medio = NULL]_vars

C9_Witness ==
    /\ Len(snapshots) = 2
    /\ snapshots[1].total_anuncios = SqlInt(0)
    /\ snapshots[1].total_vendas = SqlInt(0)
    /\ snapshots[1].ticket_medio = NULL
    /\ snapshots[2].total_anuncios = SqlInt(2)
    /\ snapshots[2].total_vendas = SqlInt(8)
    /\ \A r \in 1..MaxReqs : req[r].res.status = 200

\* C10: average ticket.  Every stored snapshot of a non-empty listing set has
\* ticket_medio equal to the plain average of the listings' prices, and
\* ticket_medio is NULL only for an empty listing set.
C10_AverageTicket ==
    \A k \in 1..Len(snapshots) :
        LET s == snapshots[k]
            n == Len(s.data)
        IN  /\ n > 0 => /\ s.ticket_medio # NULL
                        /\ s.ticket_medio[2].m * n = SumPriceUpTo(s.data, n)
            /\ s.ticket_medio = NULL => n = 0

\* the positions of a sequence of listings or of stored rows hold different ids
UniqueIds(ids) == \A i, j \in 1..Len(ids) : ids[i] = ids[j] => i = j
IdsOfListings(listings) == [k \in 1..Len(listings) |-> BindText(listings[k], "id")]
IdsOfRows(rows) == [k \in 1..Len(rows) |-> rows[k].ml_item_id]

\* C11: item id uniqueness per snapshot.  No stored snapshot has two listing
\* rows with the same item id, and a cycle whose fetched listing set has an item
\* id twice ends with an error response and stores nothing.
C11_ItemIdUnique ==
    [][/\ \A k \in 1..Len(snapshots') :
              UniqueIds(IdsOfRows(SelectAnuncios(anuncios', snapshots'[k].id)))
       /\ \A r \in Reqs :
              (StorageStep(r) /\ ~UniqueIds(IdsOfListings(req[r].listings))) =>
                  /\ req'[r].res.status # 200
                  /\ UNCHANGED <<snapshots, anuncios, alteracoes>>]_vars

\* a read request is answered in this step
ReadStep == seen'.n = seen.n + 1
\* the finished cycle of request q inserted a snapshot row
WroteSnapshot(q) ==
    /\ req[q].pc = "done"
    /\ req[q].threwAt # 1
    /\ \E i \in 1..Len(req[q].phases) : req[q].phases[i] = "PersistingSnapshot"
\* the rows of a response, whatever their order
RowsOf(groups) == UNION {DOMAIN groups[i] : i \in 1..Len(groups)}

\* C12: atomic visibility to readers.  A read request answered while capture
\* cycles are in flight runs against a store that holds nothing of them: the
\* stored snapshots are those of the finished cycles, one each.  Every cycle
\* that finished with success has its snapshot there with all of its listing
\* rows, and the list of snapshots the reader gets is the stored ones.
C12_ReadersSeeWholeCaptures ==
    [][(ReadStep /\ seen'.status = 200 /\ seen'.during # {}) =>
          /\ Len(snapshots) = Cardinality({q \in Reqs : WroteSnapshot(q)})
          /\ \A q \in Reqs :
                 (req[q].pc = "done" /\ req[q].res.status = 200) =>
                     \E k \in 1..Len(snapshots) :
                         /\ snapshots[k].id = req[q].res.snapshotId
                         /\ snapshots[k].total_anuncios = SqlInt(req[q].res.itemCount)
                         /\ Len(snapshots[k].data) = req[q].res.itemCount
                         /\ Len(SelectAnuncios(anuncios, snapshots[k].id))
                                = req[q].res.itemCount
          /\ seen'.kind = "snapshots" =>
                 /\ RowsOf(seen'.rows) = {snapshots[k] : k \in 1..Len(snapshots)}
                 /\ \A i \in 1..Len(seen'.rows) :
                        \A x \in DOMAIN seen'.rows[i] : seen'.rows[i][x] = 1]_vars

C12_Witness ==
    /\ seen.n = 1
    /\ seen.status = 200
    /\ seen.during = {2}
    /\ seen.kind = "snapshots"
    /\ Len(seen.rows) = 1
    /\ \E x \in DOMAIN seen.rows[1] : x.id = 1 /\ x.total_anuncios = SqlInt(1)
    /\ req[1].res = ResOk(1, 1)
    /\ req[2].res = ResOk(2, 1)

\* C13: append-only stores.  Every step of a capture cycle, successful or
\* failed, and of a read request keeps every stored snapshot, listing row and
\* change record as it is and at its place, so a step only adds rows at the
\* end; the ids of the snapshots increase strictly in the order they were
\* written.
C13_AppendOnly ==
    [][/\ IsPrefix(snapshots, snapshots')
       /\ IsPrefix(anuncios, anuncios')
       /\ IsPrefix(alteracoes, alteracoes')
       /\ \A i, j \in 1..Len(snapshots') :
              i < j => snapshots'[i].id < snapshots'[j].id
       /\ ReadStep => UNCHANGED <<snapshots, anuncios, alteracoes>>]_vars

C13_Witness ==
    /\ Len(snapshots) = 2
    /\ Len(anuncios) = 1
    /\ Len(alteracoes) = 1
    /\ req[1].res = Res500
    /\ req[1].phase = "PersistingSnapshot"
    /\ req[2].res = ResOk(2, 1)
    /\ seen.n = 1
    /\ seen.status = 200
    /\ seen.kind = "changes"
    /\ seen.rows # << >>

\* the capture time of the latest snapshot that has a listing row of the item
LatestSnapshotDate(item) ==
    LET ids == {anuncios[k].snapshot_id : k \in {j \in 1..Len(anuncios) :
                                                   anuncios[j].ml_item_id = item}}
    IN  IF ids = {} THEN NULL
        ELSE SqlDate(snapshots[CHOOSE j \in 1..Len(snapshots) :
                                   snapshots[j].id = Max(ids)].captured_at)
RECURSIVE RowCount(_)
RowCount(groups) ==
    IF groups = << >> THEN 0 ELSE BagCardinality(Head(groups)) + RowCount(Tail(groups))

\* C14: recent-changes query.  The answer of GET /api/history/changes has every
\* change record detected inside the lookback window exactly once and no other,
\* each with the capture time of the latest snapshot that has its item, the
\* later detection first, and no more than 100 rows.
C14_RecentChanges ==
    [][(ReadStep /\ seen'.status = 200 /\ seen'.kind = "changes") =>
          LET groups == seen'.rows
              inWindow == {i \in 1..Len(alteracoes) :
                              alteracoes[i].detectado_em >= clock - seen'.days}
          IN  /\ \A i \in 1..Len(groups) : \A x \in DOMAIN groups[i] :
                     /\ groups[i][x] = 1
                     /\ x.snapshot_date = LatestSnapshotDate(x.ml_item_id)
                     /\ \A j \in 1..Len(groups) : \A y \in DOMAIN groups[j] :
                            /\ x.id = y.id => x = y
                            /\ i < j => x.detectado_em > y.detectado_em
                            /\ i = j => x.detectado_em = y.detectado_em
              /\ {x.id : x \in RowsOf(groups)} \subseteq {alteracoes[i].id : i \in inWindow}
              /\ Cardinality(inWindow) <= ChangesLimit =>
                     {x.id : x \in RowsOf(groups)} = {alteracoes[i].id : i \in inWindow}
              /\ RowCount(groups) <= ChangesLimit]_vars

\* C15: zero previous price.  When the previous row of a fetched listing has
\* the price 0 and the prices differ by more than 0.01, the cycle appends one
\* 'preco' record for the item whose variacao_pct is NULL or a number; the text
\* of a non-finite value is not stored.
C15_ZeroPreviousPrice ==
    [][\A r \in Reqs : DiffStep(r) =>
        LET new == Suffix(alteracoes, alteracoes')
        IN  \A k \in 1..Len(req[r].listings), j \in 1..Len(PrevRows) :
              LET c == req[r].listings[k]
                  p == PrevRows[j]
              IN  (/\ p.ml_item_id = SqlText(c.id)
                   /\ p.preco[2].m = 0
                   /\ DiffersByMoreThanCent(c.price, p.preco[2])) =>
                      \E i \in 1..Len(new) :
                          /\ RecordsOfType(new, c.id, "preco") = {i}
                          /\ new[i].variacao_pct[1] \in {"null", "real"}]_vars

\* C16: delisted items.  Every change record a cycle appends names the item of
\* a listing the cycle fetched, so an item of the previous snapshot that is not
\* in the current one gets no record of any type.
C16_DelistedNoRecord ==
    [][\A r \in Reqs : StorageStep(r) =>
        LET new == Suffix(alteracoes, alteracoes')
            current == {BindText(req[r].listings[k], "id") : k \in 1..Len(req[r].listings)}
        IN  /\ \A i \in 1..Len(new) : new[i].ml_item_id \in current
            /\ snapshots # << >> =>
                   \A j \in 1..Len(PrevRows) :
                       PrevRows[j].ml_item_id \notin current =>
                           \A i \in 1..Len(new) :
                               new[i].ml_item_id # PrevRows[j].ml_item_id]_vars

C16_Witness ==
    /\ Len(snapshots) = 2
    /\ IdsOfRows(SelectAnuncios(anuncios, 1)) = <<SqlText("A")>>
    /\ IdsOfRows(SelectAnuncios(anuncios, 2)) = <<SqlText("B")>>
    /\ Len(alteracoes) = 1
    /\ alteracoes[1].ml_item_id = SqlText("B")
    /\ req[1].res = ResOk(1, 1)
    /\ req[2].res = ResOk(2, 1)

\* C17: diff base.  A cycle that succeeds while no snapshot with a lower id is
\* stored appends no change record.  Otherwise it is diffed against the rows of
\* the stored snapshot with the greatest id below its own: a fetched listing
\* gets a 'novo' record iff its item has no row there, and a 'preco' record,
\* with that row's price as the old value, iff its price differs from that
\* row's by more than 0.01.
C17_DiffBase ==
    [][\A r \in Reqs : Succeeds(r) =>
        LET sid == req'[r].res.snapshotId
            new == Suffix(alteracoes, alteracoes')
            lower == {snapshots[k].id : k \in {j \in 1..Len(snapshots) : snapshots[j].id < sid}}
        IN  IF lower = {} THEN new = << >>
            ELSE LET base == SelectAnuncios(anuncios, Max(lower))
                 IN  \A k \in 1..Len(req[r].listings) :
                       LET c == req[r].listings[k]
                           ps == {j \in 1..Len(base) : base[j].ml_item_id = SqlText(c.id)}
                       IN  /\ (RecordsOfType(new, c.id, "novo") # {}) <=> (ps = {})
                           /\ \A j \in ps :
                                  IF DiffersByMoreThanCent(c.price, base[j].preco[2])
                                  THEN \E i \in RecordsOfType(new, c.id, "preco") :
                                           new[i].valor_anterior = NumToText(base[j].preco)
                                  ELSE RecordsOfType(new, c.id, "preco") = {}]_vars

C17_Witness ==
    /\ Len(snapshots) = 3
    /\ Len(SelectAnuncios(anuncios, 1)) = 1
    /\ Len(SelectAnuncios(anuncios, 2)) = 0
    /\ Len(SelectAnuncios(anuncios, 3)) = 1
    /\ Len(alteracoes) = 1
    /\ alteracoes[1].tipo = "novo"
    /\ \A r \in 1..3 : req[r].res.status = 200

\* the phases of spec section 5 in the order it gives them
PhaseOrder ==
    <<"Fetching", "Aggregating", "PersistingSnapshot", "Diffing", "PersistingChanges", "Done">>
Rank(phase) == CHOOSE i \in 1..Len(PhaseOrder) : PhaseOrder[i] = phase
\* the phases a cycle went through before it failed, if it did
BeforeFailed(phases) == SelectSeq(phases, LAMBDA p : p # "Failed")

\* a step that writes to the store is the storage part of one cycle, which runs
\* after the last call of the marketplace has answered; a step that appends
\* change records has appended the snapshot row and all of its listing rows
WritesAfterFetching ==
    (snapshots' # snapshots \/ anuncios' # anuncios \/ alteracoes' # alteracoes) =>
        \E r \in Reqs :
            /\ StorageStep(r)
            /\ \A q \in Reqs \ {r} : req'[q] = req[q]
            /\ alteracoes' # alteracoes =>
                   /\ Len(snapshots') = Len(snapshots) + 1
                   /\ snapshots'[Len(snapshots')].data = req[r].listings
                   /\ Suffix(anuncios, anuncios')
                          = ListingRows(Len(anuncios), Len(snapshots) + 1, req[r].listings)

\* C18 as stated: phase order.  The phases a cycle goes through are in the
\* order Fetching, Aggregating, Persisting Snapshot, Diffing, Persisting
\* Changes, Done, none of them twice, a successful cycle goes through all of
\* them, Failed can only be the last; no change record is written before the
\* snapshot row and all of its listings, and no write happens before all
\* fetching has finished.
C18_PhaseOrderAsStated ==
    [][/\ \A r \in Reqs :
              LET ph == BeforeFailed(req'[r].phases)
              IN  /\ \A i, j \in 1..Len(ph) : i < j => Rank(ph[i]) < Rank(ph[j])
                  /\ \A i \in 1..Len(req'[r].phases) :
                         req'[r].phases[i] = "Failed" => i = Len(req'[r].phases)
                  /\ req'[r].res.status = 200 => ph = PhaseOrder
       /\ WritesAfterFetching]_vars

\* one phase can follow the other in the code
Follows ==
    {<<"Fetching", "Aggregating">>, <<"Aggregating", "Fetching">>,
     <<"Fetching", "PersistingSnapshot">>, <<"PersistingSnapshot", "Diffing">>,
     <<"Diffing", "PersistingChanges">>, <<"PersistingChanges", "Diffing">>,
     <<"Diffing", "Done">>, <<"PersistingChanges", "Done">>}
        \cup {<<p, "Failed">> : p \in {"Fetching", "Aggregating", "PersistingSnapshot",
                                       "Diffing", "PersistingChanges"}}

\* C18: phase order.  A cycle starts in Fetching (or fails at once), aggregates
\* after the listings were fetched, goes back to Fetching for the seller,
\* persists the snapshot, then diffs, with Persisting Changes entered from
\* Diffing once per change record and left back to Diffing or to Done; Failed
\* and Done are final.  A successful cycle goes through Fetching,
\* Aggregating, Fetching, Persisting Snapshot, Diffing and ends in Done.  No
\* change record is written before the snapshot row and all of its listings,
\* and no write happens before all fetching has finished.
C18_PhaseOrder ==
    [][/\ \A r \in Reqs :
              LET ph == req'[r].phases
              IN  /\ \A i \in 1..(Len(ph) - 1) : <<ph[i], ph[i + 1]>> \in Follows
                  /\ ph # << >> => ph[1] \in {"Fetching", "Failed"}
                  /\ \A i \in 1..Len(ph) :
                         /\ ph[i] = "Aggregating" => i = 2
                         /\ ph[i] = "Fetching" => i \in {1, 3}
                         /\ ph[i] = "PersistingSnapshot" => i = 4
                  /\ req'[r].res.status = 200 =>
                         /\ Len(ph) >= 6
                         /\ SubSeq(ph, 1, 5) = <<"Fetching", "Aggregating", "Fetching",
                                                 "PersistingSnapshot", "Diffing">>
                         /\ ph[Len(ph)] = "Done"
                  /\ (req'[r].pc = "done") <=>
                         (ph # << >> /\ ph[Len(ph)] \in {"Done", "Failed"})
       /\ WritesAfterFetching]_vars

C18_Witness ==
    /\ req[2].res = ResOk(2, 1)
    /\ req[2].phases = <<"Fetching", "Aggregating", "Fetching", "PersistingSnapshot",
                         "Diffing", "PersistingChanges", "Diffing", "PersistingChanges",
                         "Done">>
    /\ Len(alteracoes) = 2

\* C19: a failed capture causes no false 'novo' record later.  Every 'novo'
\* record a successful cycle appends names an item that was not in the listing
\* set fetched by the latest earlier cycle that inserted a snapshot row (the
\* data column of the latest stored snapshot holds that set).
C19_NoFalseNew ==
    [][\A r \in Reqs : DiffStep(r) =>
        LET new == Suffix(alteracoes, alteracoes')
            fetched == snapshots[Len(snapshots)].data
        IN  /\ \A i \in 1..Len(new) :
                   new[i].tipo = "novo" =>
                       \A k \in 1..Len(fetched) :
                           BindText(fetched[k], "id") # new[i].ml_item_id]_vars

\* C20: overlapping capture requests serialize their storage parts.  A step
\* that writes to the store is the whole storage part of one request, from its
\* snapshot insert to its response, and leaves the other requests where they
\* are; and a successful cycle whose snapshot has a stored snapshot with the
\* next lower id finds under that id the rows of the complete listing set of
\* that snapshot.
C20_OverlapSerialized ==
    [][/\ (snapshots' # snapshots \/ anuncios' # anuncios \/ alteracoes' # alteracoes) =>
              \E r \in Reqs :
                  /\ StorageStep(r)
                  /\ \A q \in Reqs \ {r} : req'[q] = req[q]
       /\ \A r \in Reqs : Succeeds(r) =>
              \A k \in 1..Len(snapshots) :
                  snapshots[k].id = req'[r].res.snapshotId - 1 =>
                      IdsOfRows(SelectAnuncios(anuncios, snapshots[k].id))
                          = IdsOfListings(snapshots[k].data)]_vars

\* C21: refreshed tokens supersede old ones.  A call of mlFetch that began
\* after refreshToken saved new tokens sends its API requests with the newest
\* access token; once refreshToken has saved new tokens no call sends the token
\* endpoint a refresh token that was sent to it before; and a call sends the
\* API at most two requests, the second after a 401.
C21_TokensSupersede ==
    [][\A c \in Calls :
        LET b == auth.calls[c]
            a == auth'.calls[c]
        IN  /\ (a.pc \in {"api", "retry"} /\ a.pc # b.pc /\ a.afterSave) =>
                   a.tokens = auth'.newest
            /\ (a.pc \in {"refresh1", "refresh2"} /\ a.pc # b.pc /\ auth.newest > 0) =>
                   a.tokens \notin auth.sentRefresh
            /\ a.apiSends <= 2
            /\ a.pc = "retry" => b.pc \in {"refresh2", "retry"}]_vars

====
